---- MODULE Spec2Model ----
(***************************************************************************)
(* A model of the cellIdTracker REST API (src/cellidtracker_rest_api.py):  *)
(* the two collections of the document store, the four request handlers    *)
(* and the two error handlers.                                              *)
(*                                                                          *)
(* JSON values are tagged records [t, v]; a request body or query string is *)
(* a function from the keys that are present to such values.  Floats are    *)
(* modelled by integers, instants by a number of microseconds.  ObjectIds   *)
(* are modelled by the position at which a document was inserted.           *)
(***************************************************************************)
EXTENDS Integers, Sequences, FiniteSets, TLC

VARIABLES
    sources,               \* collection 'sources', in insertion order
    measurements,          \* collection 'measurements', in insertion order
    skip_on_field_errors,  \* library default of validates_schema, fixed per deployment
    workers,               \* per worker: where it stands inside auth(), and its locals
    request,               \* the request whose response is being returned
    response,              \* that response
    posted                 \* history: the bodies POST /measurements accepted

vars == <<sources, measurements, skip_on_field_errors, workers, request, response, posted>>

----------------------------------------------------------------------------
(* Bounds of the model. *)

NumWorkers == 2
MaxMeasurements == 2

Workers == 1..NumWorkers

----------------------------------------------------------------------------
(* JSON values. *)

Str(s) == [t |-> "str", v |-> s]
Num(n) == [t |-> "num", v |-> n]
Iso(us) == [t |-> "iso", v |-> us]      \* an ISO-8601 string naming an instant
Oid(n) == [t |-> "oid", v |-> n]        \* a 24-digit hexadecimal string
Obj(r) == [t |-> "obj", v |-> r]
List(s) == [t |-> "list", v |-> s]
Null == [t |-> "null", v |-> 0]
Absent == [t |-> "absent", v |-> 0]     \* marks a key that is not sent

\* The keys that are sent, with their values.
Body(f) == [k \in {k \in DOMAIN f : f[k] /= Absent} |-> f[k]]

\* request.json / request.args restricted to some keys.
Only(data, keys) == [k \in (DOMAIN data) \cap keys |-> data[k]]

\* The texts float() and int() accept, with the number each denotes.
Numerals == [x \in {"50"} |-> 50]

\* An error or status message: its text and the value it names.
Msg(text, arg) == [text |-> text, arg |-> arg]
NoMsg == Msg("", Null)

Request(endpoint, id, data) == [endpoint |-> endpoint, id |-> id, data |-> data]
NoRequest == Request("none", Null, <<>>)

\* jsonify(...) with the HTTP status: the keys a handler does not set are Null.
Reply(status, message, source_id, len, result) ==
    [status |-> status, message |-> message, source_id |-> source_id,
     len |-> len, result |-> result]
NoResponse == Reply(0, NoMsg, Null, Null, Null)

----------------------------------------------------------------------------
(* Fields of the marshmallow schemas. *)

WellTyped(type, val) ==
    CASE type = "String" -> val.t = "str"
      [] type = "Float" -> val.t = "num" \/ (val.t = "str" /\ val.v \in DOMAIN Numerals)
      [] type = "Integer" -> val.t = "num" \/ (val.t = "str" /\ val.v \in DOMAIN Numerals)
      [] type = "DateTime" -> val.t = "iso"
      [] type = "ObjectId" -> val.t = "oid"
      [] type = "Nested" -> val.t = "obj"
      [] type = "List" -> val.t = "list"

\* The Python value a field deserializes to.
Deserialize(type, val) ==
    CASE type \in {"Float", "Integer"} -> IF val.t = "str" THEN Numerals[val.v] ELSE val.v
      [] OTHER -> val.v

\* validate.Range(min=0)
RangeMin0(n) == n >= 0

\* The declared fields whose value is missing though required, is of the
\* wrong type, or fails the field's validator.
FieldErrors(fields, data) ==
    {k \in DOMAIN fields :
        \/ k \notin DOMAIN data /\ fields[k].required
        \/ k \in DOMAIN data /\ ~WellTyped(fields[k].type, data[k])
        \/ /\ k \in DOMAIN data
           /\ WellTyped(fields[k].type, data[k])
           /\ fields[k].min0
           /\ ~RangeMin0(Deserialize(fields[k].type, data[k]))}

\* The deserialized data: the declared keys that are present and valid.
Loaded(fields, data) ==
    [k \in ((DOMAIN data) \cap (DOMAIN fields)) \ FieldErrors(fields, data) |->
        Deserialize(fields[k].type, data[k])]

Field(type, required) == [type |-> type, required |-> required, min0 |-> FALSE]
FieldMin0(type) == [type |-> type, required |-> FALSE, min0 |-> TRUE]

\* ValidationModelSchema.check_unknown_fields
check_unknown_fields(fields, original_data) == (DOMAIN original_data) \ (DOMAIN fields)

\* Whether a schema-level validator runs, given the field errors found.
ValidatorRuns(field_errors) == ~(skip_on_field_errors /\ field_errors /= {})

----------------------------------------------------------------------------
(* Source, SourceSchema, AuthSchema and POST /auth. *)

SourceFields ==
    [imei |-> Field("String", TRUE),
     imsi |-> Field("String", TRUE),
     readable_name |-> Field("String", TRUE)]

AuthFields ==
    [imei |-> Field("String", TRUE),
     imsi |-> Field("String", TRUE),
     readable_name |-> Field("String", TRUE),
     psk |-> Field("String", TRUE)]

\* environ.get('AUTH_PSK', 'defaultpsk')
AUTH_PSK == "defaultpsk"

\* The field names a failed validation of a ValidationModelSchema reports:
\* those of the schema-level validator when it ran and raised, and else the
\* fields with errors.
ErrorFieldNames(fields, data) ==
    LET fe == FieldErrors(fields, data)
        unexpected == check_unknown_fields(fields, data)
    IN  IF ValidatorRuns(fe) /\ unexpected /= {} THEN unexpected ELSE fe


\* Faulty variant: 401 only when psk is the one field the error names.
handle_error_psk_alone(json) ==
    LET names == ErrorFieldNames(AuthFields, json)
    IN  IF names = {} THEN 0
        ELSE IF names = {"psk"} THEN 401 ELSE 400

\* AuthSchema.handle_error: 0 when validation passes, else the status of
\* the ValidationError that is raised.
handle_error(json) ==
    LET names == ErrorFieldNames(AuthFields, json)
    IN  IF names = {} THEN 0
        ELSE IF "psk" \in names THEN 401 ELSE 400

\* handle_validation_error
handle_validation_error(status_code, message) ==
    Reply(status_code, message, Null, Null, Null)

\* handle_generic_error
handle_generic_error(message) ==
    Reply(500, message, Null, Null, Null)

Idle == [pc |-> "idle"]


\* Faulty variant: the lookup matches on imsi alone.
SourceMatchesByImsi(imei, imsi) ==
    {i \in DOMAIN sources : sources[i].imsi = imsi}

\* Source.objects.get(imei=..., imsi=...): the positions of the matches.
SourceMatches(imei, imsi) ==
    {i \in DOMAIN sources : sources[i].imei = imei /\ sources[i].imsi = imsi}

AuthRequest(json) == Request("auth", Null, json)

\* auth(), from its start to the return of Source.objects.get.
AuthLookup(w, json) ==
    /\ workers[w] = Idle
    /\ LET source == Loaded(SourceFields, Only(json, (DOMAIN json) \ {"psk"}))
           found == SourceMatches(source.imei, source.imsi)
       IN  IF handle_error(json) /= 0 THEN
               /\ request = NoRequest
               /\ request' = AuthRequest(json)
               /\ response' = handle_validation_error(handle_error(json), Msg("ValidationError", Null))
               /\ UNCHANGED workers
           ELSE IF ErrorFieldNames(SourceFields, Only(json, (DOMAIN json) \ {"psk"})) /= {} THEN
               /\ request = NoRequest
               /\ request' = AuthRequest(json)
               /\ response' = handle_validation_error(400, Msg("ValidationError", Null))
               /\ UNCHANGED workers
           ELSE IF json["psk"].v /= AUTH_PSK THEN
               /\ request = NoRequest
               /\ request' = AuthRequest(json)
               /\ response' = Reply(403, Msg("No or wrong PSK provided.", Null), Null, Null, Null)
               /\ UNCHANGED workers
           ELSE IF Cardinality(found) > 1 THEN
               /\ request = NoRequest
               /\ request' = AuthRequest(json)
               /\ response' = handle_generic_error(Msg("MultipleObjectsReturned", Null))
               /\ UNCHANGED workers
           ELSE
               /\ workers' = [workers EXCEPT ![w] =
                      [pc |-> IF found = {} THEN "DoesNotExist" ELSE "existing",
                       json |-> json,
                       source |-> source,
                       existing |-> IF found = {} THEN 0 ELSE CHOOSE i \in found : TRUE]]
               /\ UNCHANGED <<request, response>>
    /\ UNCHANGED <<sources, measurements, skip_on_field_errors, posted>>

\* auth(), from existing_source_record.readable_name = ... or source.save()
\* to its return.
AuthSave(w) ==
    /\ workers[w] /= Idle
    /\ request = NoRequest
    /\ request' = AuthRequest(workers[w].json)
    /\ IF workers[w].pc = "existing" THEN
           /\ sources' = [sources EXCEPT ![workers[w].existing].readable_name =
                              workers[w].source.readable_name]
           /\ response' = Reply(200, NoMsg, Oid(workers[w].existing), Null, Null)
       ELSE
           /\ sources' = Append(sources,
                  [id |-> Len(sources) + 1,
                   imei |-> workers[w].source.imei,
                   imsi |-> workers[w].source.imsi,
                   readable_name |-> workers[w].source.readable_name])
           /\ response' = Reply(201, NoMsg, Oid(Len(sources) + 1), Null, Null)
    /\ workers' = [workers EXCEPT ![w] = Idle]
    /\ UNCHANGED <<measurements, skip_on_field_errors, posted>>

\* Flask returns the response; the worker is free for the next request.
Return ==
    /\ request /= NoRequest
    /\ request' = NoRequest
    /\ response' = NoResponse
    /\ UNCHANGED <<sources, measurements, skip_on_field_errors, workers, posted>>


----------------------------------------------------------------------------
(* Measurement, MeasurementSchema and POST /measurements. *)

MeasurementFields ==
    [version |-> Field("String", TRUE),
     source_id |-> Field("ObjectId", TRUE),
     timestamp |-> Field("DateTime", TRUE),
     location_information |-> Field("Nested", FALSE),
     battery |-> Field("Float", TRUE),
     cell_info |-> Field("List", FALSE)]

\* CellInfo.type: choices=['LTE', 'UMTS', 'CDMA', 'GSM']
CellTypes == {"LTE", "UMTS", "CDMA", "GSM"}

\* The validation of the embedded CellInfo documents.
CellInfoValid(data) ==
    "cell_info" \in DOMAIN data =>
        \A i \in DOMAIN data.cell_info : data.cell_info[i].type \in CellTypes


\* Faulty variant: the store keeps whole seconds.
StoredDateSeconds(us) == (us \div 1000000) * 1000000

\* A DateTimeField value as the store keeps it: whole milliseconds.
StoredDate(us) == (us \div 1000) * 1000

\* The Measurement document built from the loaded data; a field that was not
\* sent holds its default.
Document(id, data) ==
    [id |-> id,
     version |-> data.version,
     source_id |-> data.source_id,
     timestamp |-> StoredDate(data.timestamp),
     location_information |->
         IF "location_information" \in DOMAIN data
         THEN Obj(data.location_information) ELSE Null,
     battery |-> data.battery,
     cell_info |-> IF "cell_info" \in DOMAIN data THEN List(data.cell_info) ELSE List(<<>>)]

\* Whether measurement_schema.load(json) and the validation of save() pass.
MeasurementValid(json) ==
    LET fe == FieldErrors(MeasurementFields, json)
    IN  /\ fe = {}
        /\ check_unknown_fields(MeasurementFields, json) = {}
        /\ CellInfoValid(Loaded(MeasurementFields, json))


\* Faulty variant: the save replaces the newest document instead of inserting.
SaveMeasurementReplacing(json) ==
    IF measurements = <<>>
    THEN <<Document(1, Loaded(MeasurementFields, json))>>
    ELSE [measurements EXCEPT ![Len(measurements)] =
             Document(Len(measurements), Loaded(MeasurementFields, json))]

\* measurement.save()
SaveMeasurement(json) ==
    Append(measurements, Document(Len(measurements) + 1, Loaded(MeasurementFields, json)))


\* Faulty variant: the document is saved before the unknown fields are rejected.
post_measurement_saving_first(json) ==
    /\ request = NoRequest
    /\ request' = Request("post_measurement", Null, json)
    /\ IF FieldErrors(MeasurementFields, json) = {}
          /\ CellInfoValid(Loaded(MeasurementFields, json)) THEN
           /\ Len(measurements) < MaxMeasurements
           /\ measurements' = Append(measurements,
                  Document(Len(measurements) + 1, Loaded(MeasurementFields, json)))
           /\ posted' = Append(posted, json)
           /\ response' =
                  IF check_unknown_fields(MeasurementFields, json) = {}
                  THEN Reply(201, NoMsg, Null, Null, Null)
                  ELSE handle_validation_error(400, Msg("ValidationError", Null))
       ELSE
           /\ response' = handle_validation_error(400, Msg("ValidationError", Null))
           /\ UNCHANGED <<measurements, posted>>
    /\ UNCHANGED <<sources, skip_on_field_errors, workers>>

\* post_measurement()
post_measurement(json) ==
    /\ request = NoRequest
    /\ request' = Request("post_measurement", Null, json)
    /\ IF MeasurementValid(json) THEN
           /\ Len(measurements) < MaxMeasurements
           /\ measurements' = SaveMeasurement(json)
           /\ posted' = Append(posted, json)
           /\ response' = Reply(201, NoMsg, Null, Null, Null)
       ELSE
           /\ response' = handle_validation_error(400, Msg("ValidationError", Null))
           /\ UNCHANGED <<measurements, posted>>
    /\ UNCHANGED <<sources, skip_on_field_errors, workers>>

----------------------------------------------------------------------------
(* GET /measurement/<measurement_id>. *)

GetMeasurementFields == [measurement_fields |-> Field("String", FALSE)]

\* str.split(',') on the texts of the model.
SplitComma ==
    [x \in {"battery", "battery,timestamp"} |->
        IF x = "battery" THEN <<"battery">> ELSE <<"battery", "timestamp">>]

Range(s) == {s[i] : i \in DOMAIN s}

\* QuerySet.only(*names): the fields that are loaded; the others hold their
\* default.
OnlyFields(doc, names) ==
    [id |-> doc.id,
     version |-> IF "version" \in names THEN doc.version ELSE "",
     source_id |-> IF "source_id" \in names THEN doc.source_id ELSE 0,
     timestamp |-> IF "timestamp" \in names THEN doc.timestamp ELSE 0,
     location_information |->
         IF "location_information" \in names THEN doc.location_information ELSE Null,
     battery |-> IF "battery" \in names THEN doc.battery ELSE 0,
     cell_info |-> IF "cell_info" \in names THEN doc.cell_info ELSE List(<<>>),
     loaded |-> names \cup {"id"}]

AllFields == DOMAIN MeasurementFields

\* The projection the query parameters ask for.
Projected(doc, parameters) ==
    IF "measurement_fields" \in DOMAIN parameters
    THEN OnlyFields(doc, Range(SplitComma[parameters.measurement_fields]))
    ELSE OnlyFields(doc, AllFields)

\* measurement_schema.dump(document): a field that was not loaded is null.
Dump(doc) ==
    [id |-> Oid(doc.id),
     version |-> IF "version" \in doc.loaded THEN Str(doc.version) ELSE Null,
     source_id |-> IF "source_id" \in doc.loaded THEN Oid(doc.source_id) ELSE Null,
     timestamp |-> IF "timestamp" \in doc.loaded THEN Iso(doc.timestamp) ELSE Null,
     location_information |-> doc.location_information,
     battery |-> IF "battery" \in doc.loaded THEN Num(doc.battery) ELSE Null,
     cell_info |-> doc.cell_info]


\* Faulty variant: the lookup falls back to the first document.
MeasurementMatchesOrFirst(measurement_id) ==
    IF {i \in DOMAIN measurements : measurements[i].id = measurement_id.v} /= {}
    THEN {i \in DOMAIN measurements : measurements[i].id = measurement_id.v}
    ELSE (DOMAIN measurements) \cap {1}

\* Measurement.objects(id=measurement_id): the positions of the matches.
MeasurementMatches(measurement_id) ==
    {i \in DOMAIN measurements : measurements[i].id = measurement_id.v}

\* get_measurement(measurement_id)
get_measurement(measurement_id, args) ==
    /\ request = NoRequest
    /\ request' = Request("get_measurement", measurement_id, args)
    /\ LET parameters == Loaded(GetMeasurementFields, args)
           found == MeasurementMatches(measurement_id)
       IN  response' =
               IF measurement_id.t /= "oid"
               THEN handle_validation_error(400, Msg("is not a valid ObjectId", measurement_id))
               ELSE IF found = {}
               THEN Reply(404, Msg("Measurement with object id {0} was not found.", measurement_id),
                          Null, Null, Null)
               ELSE Reply(200, NoMsg, Null, Null,
                          Dump(Projected(measurements[CHOOSE i \in found : TRUE], parameters)))
    /\ UNCHANGED <<sources, measurements, skip_on_field_errors, workers, posted>>

----------------------------------------------------------------------------
(* GetMeasurementsSchema and GET /measurements. *)

GetMeasurementsFields ==
    [latitude_upper_bound |-> Field("Float", TRUE),
     latitude_lower_bound |-> Field("Float", TRUE),
     longitude_lower_bound |-> Field("Float", TRUE),
     longitude_upper_bound |-> Field("Float", TRUE),
     min_location_age |-> FieldMin0("Integer"),
     max_location_age |-> FieldMin0("Integer"),
     min_location_accuracy |-> FieldMin0("Float"),
     max_location_accuracy |-> FieldMin0("Float"),
     measurement_fields |-> Field("String", FALSE)]

Raised(exception, text) == [exception |-> exception, message |-> Msg(text, Null)]
Passed == Raised("none", "")

\* GetMeasurementsSchema.validate_coordinates, statement by statement; data
\* holds only the keys that were sent and are valid.
validate_coordinates(data) ==
    IF ~({"latitude_upper_bound", "latitude_lower_bound"} \subseteq DOMAIN data)
    THEN Raised("KeyError", "latitude")
    ELSE IF data.latitude_upper_bound < data.latitude_lower_bound
    THEN Raised("ValidationError",
                "latitude_upper_bound must be greater than latitude_lower_bound.")
    ELSE IF ~({"longitude_lower_bound", "longitude_upper_bound"} \subseteq DOMAIN data)
    THEN Raised("KeyError", "longitude")
    ELSE IF data.longitude_lower_bound > data.longitude_upper_bound
    THEN Raised("ValidationError",
                "longitude_lower_bound must be smaller than longitude_upper_bound.")
    ELSE IF /\ "min_location_age" \in DOMAIN data
            /\ "max_location_age" \in DOMAIN data
            /\ data.min_location_age > data.max_location_age
    THEN Raised("ValidationError", "min_location_age must be smaller than max_location_age.")
    ELSE IF /\ "min_location_accuracy" \in DOMAIN data
            /\ "max_location_accuracy" \in DOMAIN data
            /\ data.min_location_accuracy > data.max_location_accuracy
    THEN Raised("ValidationError",
                "min_location_accuracy must be smaller than max_location_accuracy.")
    ELSE Passed

\* get_measurements_schema.load(request.args): what it raises.
LoadQuery(args) ==
    LET fe == FieldErrors(GetMeasurementsFields, args)
        checked == validate_coordinates(Loaded(GetMeasurementsFields, args))
    IN  IF ValidatorRuns(fe) /\ checked /= Passed THEN checked
        ELSE IF fe /= {} THEN Raised("ValidationError", "field")
        ELSE Passed

\* The keyword arguments of the query, each with the field of
\* location_information and the comparison it stands for.
QueryKeys ==
    [location_information__latitude__lte |-> [field |-> "latitude", op |-> "lte"],
     location_information__latitude__gte |-> [field |-> "latitude", op |-> "gte"],
     location_information__longitude__gte |-> [field |-> "longitude", op |-> "gte"],
     location_information__longitude__lte |-> [field |-> "longitude", op |-> "lte"],
     location_information__age__gte |-> [field |-> "age", op |-> "gte"],
     location_information__age__lte |-> [field |-> "age", op |-> "lte"],
     location_information__accuracy__gte |-> [field |-> "accuracy", op |-> "gte"],
     location_information__accuracy__lte |-> [field |-> "accuracy", op |-> "lte"]]

\* The parameter that sets each keyword argument.
QueryParameter ==
    [location_information__latitude__lte |-> "latitude_upper_bound",
     location_information__latitude__gte |-> "latitude_lower_bound",
     location_information__longitude__gte |-> "longitude_lower_bound",
     location_information__longitude__lte |-> "longitude_upper_bound",
     location_information__age__gte |-> "min_location_age",
     location_information__age__lte |-> "max_location_age",
     location_information__accuracy__gte |-> "min_location_accuracy",
     location_information__accuracy__lte |-> "max_location_accuracy"]


\* Faulty variant: max_location_age is not passed on to the query.
mongoquery_parameters_without_max_age(parameters) ==
    [k \in {k \in DOMAIN QueryParameter :
                /\ QueryParameter[k] \in DOMAIN parameters
                /\ k /= "location_information__age__lte"} |->
        parameters[QueryParameter[k]]]

\* mongoquery_parameters
mongoquery_parameters(parameters) ==
    [k \in {k \in DOMAIN QueryParameter : QueryParameter[k] \in DOMAIN parameters} |->
        parameters[QueryParameter[k]]]

\* Whether a document satisfies every keyword argument of the query.
Satisfies(doc, query) ==
    /\ doc.location_information /= Null
    /\ \A k \in DOMAIN query :
          LET value == doc.location_information.v[QueryKeys[k].field]
          IN  IF QueryKeys[k].op = "lte" THEN value <= query[k] ELSE value >= query[k]

\* Measurement.objects(**mongoquery_parameters), in the order of the collection.
Objects(query) ==
    LET Test(doc) == Satisfies(doc, query)
    IN  SelectSeq(measurements, Test)

\* get_measurements()
get_measurements(args) ==
    /\ request = NoRequest
    /\ request' = Request("get_measurements", Null, args)
    /\ LET raised == LoadQuery(args)
           parameters == Loaded(GetMeasurementsFields, args)
           found == Objects(mongoquery_parameters(parameters))
       IN  response' =
               IF raised.exception = "KeyError" THEN handle_generic_error(raised.message)
               ELSE IF raised.exception = "ValidationError"
               THEN handle_validation_error(400, raised.message)
               ELSE Reply(200, NoMsg, Null, Len(found),
                          [i \in DOMAIN found |-> Dump(Projected(found[i], parameters))])
    /\ UNCHANGED <<sources, measurements, skip_on_field_errors, workers, posted>>

----------------------------------------------------------------------------
(* Requests of the model. *)

Bodies(choices) == {Body(f) : f \in choices}

\* POST /auth bodies: every way the four fields can be missing or mistyped.
AuthBodies ==
    Bodies([imei : {Absent, Str("i1"), Str("i2")},
            imsi : {Absent, Str("s1")},
            readable_name : {Num(7), Str("a"), Str("b")},
            psk : {Absent, Num(7), Str("defaultpsk"), Str("wrong")},
            foo : {Absent, Str("x")}])

\* POST /auth bodies for one device.
AuthBodiesOneDevice ==
    Bodies([imei : {Str("i1")},
            imsi : {Str("s1")},
            readable_name : {Str("a"), Str("b")},
            psk : {Absent, Str("defaultpsk"), Str("wrong")},
            foo : {Absent}])

Location(lat, lon, acc, age) ==
    Obj([latitude |-> lat, longitude |-> lon, accuracy |-> acc, altitude |-> 0, age |-> age])

Cell(type) ==
    [active |-> TRUE, type |-> type, cell_identity |-> [ci |-> 1],
     cell_signal_strength |-> [dbm |-> 1]]

\* POST /measurements bodies.
MeasurementBodies ==
    Bodies([version : {Absent, Str("1")},
            source_id : {Oid(1)},
            timestamp : {Iso(2500)},
            location_information : {Absent, Location(1, 1, 1, 0)},
            battery : {Absent, Num(50), Str("50"), Str("full")},
            cell_info : {Absent, List(<<Cell("LTE")>>), List(<<Cell("5G")>>)},
            foo : {Absent, Str("x")}])

\* A few POST /measurements bodies.
MeasurementBodiesFew ==
    Bodies([version : {Str("1")},
            source_id : {Oid(1)},
            timestamp : {Iso(2500)},
            location_information : {Absent, Location(1, 1, 1, 0)},
            battery : {Absent, Num(50)},
            cell_info : {List(<<Cell("LTE")>>)},
            foo : {Absent, Str("x")}])

\* The identifiers of GET /measurement/<measurement_id>.
MeasurementIds == {Oid(i) : i \in 1..(MaxMeasurements + 1)} \cup {Str("abc")}

GetMeasurementArgs ==
    Bodies([measurement_fields : {Absent, Str("battery"), Str("battery,timestamp")}])

\* POST /measurements bodies with locations on both sides of the query bounds.
LocatedBodies ==
    Bodies([version : {Str("1")},
            source_id : {Oid(1)},
            timestamp : {Iso(1000)},
            location_information :
                {Absent, Location(1, 1, 1, 1), Location(2, 1, 1, 1), Location(0, 1, 1, 1),
                 Location(1, 2, 1, 1), Location(1, 1, 0, 2), Location(1, 1, 2, 0)},
            battery : {Num(50)},
            cell_info : {Absent},
            foo : {Absent}])

\* GET /measurements query strings: every way the bounds can be missing,
\* negative, equal or inverted.
QueryArgs ==
    Bodies([latitude_lower_bound : {Absent, Num(1), Num(2)},
            latitude_upper_bound : {Absent, Num(1), Num(2)},
            longitude_lower_bound : {Absent, Num(1)},
            longitude_upper_bound : {Absent, Num(0), Num(1)},
            min_location_age : {Absent, Num(-1), Num(1)},
            max_location_age : {Absent, Num(0), Num(1)},
            min_location_accuracy : {Absent, Num(2)},
            max_location_accuracy : {Absent, Num(-1), Num(1)}])

\* GET /measurements query strings with all four bounds of the box.
BoxArgs ==
    Bodies([latitude_lower_bound : {Num(1), Num(2)},
            latitude_upper_bound : {Num(1), Num(2)},
            longitude_lower_bound : {Num(1)},
            longitude_upper_bound : {Num(1), Num(2)},
            min_location_age : {Absent, Num(1)},
            max_location_age : {Absent, Num(1)},
            min_location_accuracy : {Absent, Num(1)},
            max_location_accuracy : {Absent, Num(1)},
            measurement_fields : {Absent, Str("battery")}])

\* A few GET /measurements query strings.
QueryArgsFew ==
    Bodies([latitude_lower_bound : {Num(1)},
            latitude_upper_bound : {Absent, Num(0), Num(1)},
            longitude_lower_bound : {Num(1)},
            longitude_upper_bound : {Num(1)},
            max_location_age : {Absent, Num(-1)}])

----------------------------------------------------------------------------
(* The service. *)

Init ==
    /\ sources = <<>>
    /\ measurements = <<>>
    /\ skip_on_field_errors \in BOOLEAN
    /\ workers = [w \in Workers |-> Idle]
    /\ request = NoRequest
    /\ response = NoResponse
    /\ posted = <<>>

\* Every endpoint, with requests to /auth handled by concurrent workers.
Next ==
    \/ \E w \in Workers, json \in AuthBodiesOneDevice : AuthLookup(w, json)
    \/ \E w \in Workers : AuthSave(w)
    \/ \E json \in MeasurementBodiesFew : post_measurement(json)
    \/ \E id \in MeasurementIds, args \in GetMeasurementArgs : get_measurement(id, args)
    \/ \E args \in QueryArgsFew : get_measurements(args)
    \/ Return

Spec == Init /\ [][Next]_vars

NoAuthRunning == \A w \in Workers : workers[w] = Idle

\* Requests to /auth handled one after another.
SeqNext ==
    \/ \E w \in Workers, json \in AuthBodies : NoAuthRunning /\ AuthLookup(w, json)
    \/ \E w \in Workers : AuthSave(w)
    \/ Return

SeqSpec == Init /\ [][SeqNext]_vars

\* The measurement endpoints, with every way a body can be missing a field.
MeasurementNext ==
    \/ \E json \in MeasurementBodies : post_measurement(json)
    \/ \E id \in MeasurementIds, args \in GetMeasurementArgs : get_measurement(id, args)
    \/ Return

MeasurementSpec == Init /\ [][MeasurementNext]_vars

\* The bounding-box query over collections of located measurements.
QueryNext ==
    \/ \E json \in LocatedBodies : post_measurement(json)
    \/ \E args \in BoxArgs : get_measurements(args)
    \/ Return

QuerySpec == Init /\ [][QueryNext]_vars

\* The validation of the bounding-box query.
QueryValidationNext ==
    \/ \E json \in MeasurementBodiesFew : post_measurement(json)
    \/ \E args \in QueryArgs : get_measurements(args)
    \/ Return

QueryValidationSpec == Init /\ [][QueryValidationNext]_vars

----------------------------------------------------------------------------
(* Properties of POST /auth. *)

\* A handler returns: the step that produces the response to a request.
Handled(endpoint) == request = NoRequest /\ request'.endpoint = endpoint

Failures == {400, 401, 403, 404, 500}

\* The declared fields of an auth body that are missing or not strings.
AuthFailing(json) ==
    {k \in {"imei", "imsi", "readable_name", "psk"} :
        k \notin DOMAIN json \/ json[k].t /= "str"}

\* The keys of an auth body that the schema does not declare.
AuthUnknown(json) == (DOMAIN json) \ {"imei", "imsi", "readable_name", "psk"}

ShapeValid(json) == AuthFailing(json) = {} /\ AuthUnknown(json) = {}

\* The positions of the Source records of a device.
RecordsOf(imei, imsi) ==
    {i \in DOMAIN sources : sources[i].imei = imei /\ sources[i].imsi = imsi}

\* C1: in every reachable state, also when the lookup and the save of
\* several /auth requests interleave, the sources collection holds at most
\* one Source record for each (imei, imsi) pair.
C1_OneSourcePerPair ==
    \A i, j \in DOMAIN sources :
        (sources[i].imei = sources[j].imei /\ sources[i].imsi = sources[j].imsi) => i = j

\* C10: every valid POST /auth with the correct psk is answered with 200 or
\* 201 and a source_id, in every reachable state.
C10_ValidAuthSucceeds ==
    (/\ request.endpoint = "auth"
     /\ ShapeValid(request.data)
     /\ request.data.psk.v = "defaultpsk")
        => (response.status \in {200, 201} /\ response.source_id.t = "oid")

\* C3 as stated: 401 when psk is the only failing field, 400 for every other
\* shape failure, 403 for a valid shape with a wrong psk, and 200 or 201 only
\* otherwise.
C3_StatusOrder ==
    request.endpoint = "auth" =>
        LET json == request.data
        IN  IF ~ShapeValid(json)
            THEN IF AuthFailing(json) = {"psk"} /\ AuthUnknown(json) = {}
                 THEN response.status = 401
                 ELSE response.status = 400
            ELSE IF json.psk.v /= "defaultpsk"
            THEN /\ response.status = 403
                 /\ response.message.text = "No or wrong PSK provided."
            ELSE response.status \in {200, 201}

\* C3 as amended: 401 whenever psk is among the failing fields and no unknown
\* field is sent, also when other fields fail too; 400 when the shape fails
\* and psk is not among the failing fields; 401 or 400 when psk fails and an
\* unknown field is sent; 403 with the message for a valid shape with a wrong
\* psk; 200 or 201 only for a valid shape with the right psk.
C3_StatusOrderAmended ==
    request.endpoint = "auth" =>
        LET json == request.data
        IN  /\ ("psk" \in AuthFailing(json) /\ AuthUnknown(json) = {})
                   => response.status = 401
            /\ ("psk" \in AuthFailing(json) /\ AuthUnknown(json) /= {})
                   => response.status \in {400, 401}
            /\ ("psk" \notin AuthFailing(json) /\ ~ShapeValid(json))
                   => response.status = 400
            /\ (ShapeValid(json) /\ json.psk.v /= "defaultpsk")
                   => /\ response.status = 403
                      /\ response.message.text = "No or wrong PSK provided."
            /\ response.status \in {200, 201}
                   => (ShapeValid(json) /\ json.psk.v = "defaultpsk")
            /\ response.status \in {200, 201, 400, 401, 403}

\* A body missing both psk and imei was answered with 401.
C3_Witness ==
    /\ request.endpoint = "auth"
    /\ AuthFailing(request.data) = {"psk", "imei"}
    /\ response.status = 401

\* C2: with requests handled one after another, a valid POST /auth with the
\* correct psk for a device that has no Source returns 201, adds exactly one
\* Source and returns its id; for a device that has a Source it returns 200
\* with the id of that Source, adds none, and sets readable_name to the value
\* sent, leaving id, imei and imsi as they were; no device ever has two.
C2_AuthStep ==
    \A w \in Workers :
        (workers[w] /= Idle /\ workers'[w] = Idle) =>
            LET json == workers[w].json
                had == RecordsOf(json.imei.v, json.imsi.v)
            IN  /\ request' = Request("auth", Null, json)
                /\ ShapeValid(json) /\ json.psk.v = "defaultpsk"
                /\ Cardinality(had) <= 1
                /\ \A i \in (DOMAIN sources) \ had : sources'[i] = sources[i]
                /\ had = {} =>
                      /\ response'.status = 201
                      /\ Len(sources') = Len(sources) + 1
                      /\ response'.source_id = Oid(sources'[Len(sources')].id)
                      /\ \A i \in DOMAIN sources : sources[i].id /= sources'[Len(sources')].id
                      /\ sources'[Len(sources')].imei = json.imei.v
                      /\ sources'[Len(sources')].imsi = json.imsi.v
                      /\ sources'[Len(sources')].readable_name = json.readable_name.v
                /\ \A i \in had :
                      /\ response'.status = 200
                      /\ Len(sources') = Len(sources)
                      /\ response'.source_id = Oid(sources[i].id)
                      /\ sources'[i] = [sources[i] EXCEPT !.readable_name = json.readable_name.v]

\* Between the lookup and the save of a valid request with the right psk
\* nothing else runs, and no other /auth step touches the sources.
C2_OtherSteps ==
    (\A w \in Workers : ~(workers[w] /= Idle /\ workers'[w] = Idle)) => sources' = sources

C2_SequentialAuth == [][C2_AuthStep /\ C2_OtherSteps]_vars

\* A second request of a device was answered with 200 and its new name stored.
C2_Witness ==
    /\ request.endpoint = "auth"
    /\ response.status = 200
    /\ response.source_id = Oid(1)
    /\ Len(sources) = 2
    /\ request.data.readable_name = Str("b")
    /\ sources[1].readable_name = "b"

----------------------------------------------------------------------------
(* Properties of the measurement endpoints. *)

Has(args, key) == key \in DOMAIN args

\* A query string that passes every check of section 4.1.
ValidQuery(args) ==
    /\ \A k \in {"latitude_upper_bound", "latitude_lower_bound",
                  "longitude_lower_bound", "longitude_upper_bound"} : Has(args, k)
    /\ \A k \in {"min_location_age", "max_location_age",
                  "min_location_accuracy", "max_location_accuracy"} :
           Has(args, k) => args[k].v >= 0
    /\ args.latitude_upper_bound.v >= args.latitude_lower_bound.v
    /\ args.longitude_lower_bound.v <= args.longitude_upper_bound.v
    /\ (Has(args, "min_location_age") /\ Has(args, "max_location_age"))
           => args.min_location_age.v <= args.max_location_age.v
    /\ (Has(args, "min_location_accuracy") /\ Has(args, "max_location_accuracy"))
           => args.min_location_accuracy.v <= args.max_location_accuracy.v

\* Whether a persisted Measurement lies in the box and within the optional
\* bounds of a valid query.
InBox(doc, args) ==
    /\ doc.location_information /= Null
    /\ LET loc == doc.location_information.v
       IN  /\ args.latitude_lower_bound.v <= loc.latitude
           /\ loc.latitude <= args.latitude_upper_bound.v
           /\ args.longitude_lower_bound.v <= loc.longitude
           /\ loc.longitude <= args.longitude_upper_bound.v
           /\ Has(args, "min_location_age") => loc.age >= args.min_location_age.v
           /\ Has(args, "max_location_age") => loc.age <= args.max_location_age.v
           /\ Has(args, "min_location_accuracy") => loc.accuracy >= args.min_location_accuracy.v
           /\ Has(args, "max_location_accuracy") => loc.accuracy <= args.max_location_accuracy.v

\* C4: a valid GET /measurements is answered with 200 and exactly the
\* persisted Measurements that satisfy all supplied predicates, bounds
\* inclusive, each once; len is their number.
C4_ExactlyTheMatches ==
    (request.endpoint = "get_measurements" /\ ValidQuery(request.data)) =>
        LET expected == {i \in DOMAIN measurements : InBox(measurements[i], request.data)}
        IN  /\ response.status = 200
            /\ response.len = Cardinality(expected)
            /\ Len(response.result) = response.len
            /\ {response.result[i].id : i \in DOMAIN response.result}
                   = {Oid(measurements[i].id) : i \in expected}

\* Of two persisted Measurements a query returned one and left one out.
C4_Witness ==
    /\ request.endpoint = "get_measurements"
    /\ Has(request.data, "max_location_age")
    /\ Has(request.data, "min_location_accuracy")
    /\ response.status = 200
    /\ Len(measurements) = 2
    /\ measurements[1].location_information /= Null
    /\ measurements[2].location_information /= Null
    /\ response.len = 1

C6_Step ==
    /\ \A i \in DOMAIN measurements :
           i \in DOMAIN measurements' /\ measurements'[i] = measurements[i]
    /\ Len(measurements') <= Len(measurements) + 1
    /\ \A i, j \in DOMAIN measurements' :
           measurements'[i].id = measurements'[j].id => i = j
    /\ (Len(measurements') = Len(measurements) + 1)
           <=> (Handled("post_measurement") /\ response'.status = 201)

MeasurementKeys ==
    {"version", "source_id", "timestamp", "location_information", "battery", "cell_info"}

\* The request is a GET /measurement/<id> for the id of an accepted body,
\* without measurement_fields.
ReadsBack(n) ==
    /\ request.endpoint = "get_measurement"
    /\ request.id = Oid(n)
    /\ n \in DOMAIN posted
    /\ ~Has(request.data, "measurement_fields")

ReadBackValue(k, val) ==
    CASE k = "timestamp" -> Iso(val.v - (val.v % 1000))
      [] k = "battery" -> IF val.t = "str" THEN Num(Numerals[val.v]) ELSE val
      [] OTHER -> val

C8_LookupStep ==
    Handled("get_measurement") =>
        LET id == request'.id
            found == {i \in DOMAIN measurements : id.t = "oid" /\ measurements[i].id = id.v}
        IN  /\ sources' = sources /\ measurements' = measurements
            /\ IF found /= {}
               THEN response'.status = 200 /\ response'.result.id = id
               ELSE response'.status = 404 /\ response'.message.arg = id

C8_Lookup == [][C8_LookupStep]_vars

\* C8 as amended: 200 with the record when a Measurement has the
\* identifier; 404 naming the identifier when the identifier is a
\* well-formed ObjectId that no Measurement has; 400 naming the identifier
\* when it is not a well-formed ObjectId; the collections are unchanged.
C8_LookupStepAmended ==
    Handled("get_measurement") =>
        LET id == request'.id
            found == {i \in DOMAIN measurements : id.t = "oid" /\ measurements[i].id = id.v}
        IN  /\ sources' = sources /\ measurements' = measurements
            /\ IF found /= {}
               THEN /\ response'.status = 200
                    /\ response'.result.id = id
                    /\ \A i \in found :
                           ~Has(request'.data, "measurement_fields") =>
                               /\ response'.result.version = Str(measurements[i].version)
                               /\ response'.result.battery = Num(measurements[i].battery)
                               /\ response'.result.timestamp = Iso(measurements[i].timestamp)
               ELSE IF id.t = "oid"
               THEN /\ response'.status = 404
                    /\ response'.message.text = "Measurement with object id {0} was not found."
                    /\ response'.message.arg = id
               ELSE response'.status = 400 /\ response'.message.arg = id

C8_LookupAmended == [][C8_LookupStepAmended]_vars

\* With a Measurement persisted, an identifier that is no ObjectId was
\* answered with 400.
C8_Witness ==
    /\ request.endpoint = "get_measurement"
    /\ request.id = Str("abc")
    /\ Len(measurements) = 1
    /\ response.status = 400

\* A POST /measurements body with an undeclared key or without a required one.
RejectedBody(json) ==
    \/ (DOMAIN json) \ MeasurementKeys /= {}
    \/ {"version", "source_id", "timestamp", "battery"} \ (DOMAIN json) /= {}

\* C9: a request answered with 400, 401, 403, 404 or 500 leaves both
\* collections as they were and leaves no worker busy; a POST /measurements
\* body with a missing required field or an unknown top-level field is
\* answered with 400.
C9_Step ==
    /\ (request = NoRequest /\ request' /= NoRequest /\ response'.status \in Failures)
           => /\ sources' = sources
              /\ measurements' = measurements
              /\ workers' = workers
    /\ (Handled("post_measurement") /\ RejectedBody(request'.data))
           => response'.status = 400
    /\ (request = NoRequest /\ request' /= NoRequest)
           => response'.status \in Failures \cup {200, 201}

C9_FailuresChangeNothing == [][C9_Step]_vars

\* With a Source and a Measurement persisted, a body with an unknown key was
\* rejected.
C9_Witness ==
    /\ request.endpoint = "post_measurement"
    /\ Has(request.data, "foo")
    /\ response.status = 400
    /\ Len(measurements) = 1
    /\ Len(sources) = 1

====
